---- MODULE Spec2Model ----
(***************************************************************************)
(* A model of ModSynth (gsliepen/modsynth): the module registry, the SDL   *)
(* audio callback that ticks every registered module, Wire / composite     *)
(* routing, the lifecycle of the example programs, the MIDI adapter's      *)
(* per-channel state and input queue, and the Sequencer, Envelope, Delay,  *)
(* LinearSlew and VCO modules.                                             *)
(*                                                                         *)
(* Number representation.  The program computes with float.  The model    *)
(* uses exact fixed point: port values are integers, a velocity v/127.0f   *)
(* is kept as the integer v in units of 1/127, a frequency in Hz is kept   *)
(* in millihertz, and the output sample left * 0.1 is kept in tenths.      *)
(***************************************************************************)
EXTENDS Integers, Sequences, FiniteSets, TLC

(***************************************************************************)
(* Bounds of the model (not program constants).                            *)
(***************************************************************************)
NumAddr == 2        \* storage locations the host program can put a Module in
MaxEntries == 4     \* cap on the length of Registry::modules
MaxFrames == 2      \* largest buffer, in stereo frames, SDL hands to the callback
MaxTicks == 4       \* cap on the number of ticks run in one behaviour
MaxEvents == 4      \* cap on the number of MIDI events processed in one behaviour
MaxQueue == 2       \* cap on the number of MIDI events waiting in the input queue
MaxSeqLen == 3      \* longest note list a Sequencer is constructed from
MaxSeqTicks == 6    \* cap on the number of Sequencer ticks in one behaviour
MaxAttack == 3      \* longest attack time of an Envelope, in ticks (attack / dt)
MaxEnvTicks == 6    \* cap on the number of Envelope ticks in one behaviour
MaxDelay == 3       \* longest max_delay a Delay is constructed with, in samples
MaxDelayTicks == 5  \* cap on the number of Delay ticks in one behaviour
MaxSlewTicks == 6   \* cap on the number of LinearSlew ticks in one behaviour
PhaseBits == 3      \* a VCO's phase and frequency * dt are multiples of 2^-PhaseBits
MaxVcoTicks == 16   \* cap on the number of VCO ticks in one behaviour

(***************************************************************************)
(* Program constants.                                                      *)
(***************************************************************************)
Channels == 2           \* desired.channels
SampleBytes == 4        \* AUDIO_F32: one float sample
PtrSizes == {4, 8}      \* sizeof ptr (float *) on a 32-bit and a 64-bit build
NumChannels == 16       \* MIDI::channels[16]
NumNotes == 128         \* std::bitset<128> notes
NumParams == 128        \* float parameter[128]
MantissaBits == 24      \* float: the significand of IEEE 754 binary32
DtMantissa == 11453246  \* dt = 1.0f / 48000.0f = 11453246 * 2^-39
BendDivisor == 4096     \* pitch_bend = value / 4096.0f

\* Fixed storage of the patch: a producer A, a Speaker B, a Wire W from A's
\* output to B's left input, and a composite C that has A and B as members.
PatchAddr == [A |-> 1, B |-> 2, W |-> 3, C |-> 4]
AddrA == PatchAddr.A
AddrB == PatchAddr.B
AddrW == PatchAddr.W
AddrC == PatchAddr.C

Addr == 1..(IF NumAddr > 4 THEN NumAddr ELSE 4)
HostAddr == 1..NumAddr

\* Values a producer module can put on its output port (multiples of ten, so
\* that the 0.1 output scaling is exact).
Values == {0, 10, 20}

\* The channels whose state the model keeps: the first and the last
ModelledChans == {0, NumChannels - 1}

\* Note numbers and velocities MIDI events carry in the model; the note field is
\* an unsigned char, so NumNotes is a value it can hold that no bit of the
\* bitset stands for.
\* Notes 33 and 55 are in the set because note_to_frequency(33) is 55 Hz.
EventNotes == {0, 33, 55, NumNotes - 1, NumNotes}
ValidNotes == {n \in EventNotes : n < NumNotes}
EventVelocities == {0, 40, 100}

\* Channel numbers MIDI events carry in the model; the channel field is an
\* unsigned char, so NumChannels is a value it can hold that channels[] has no
\* element for.
EventChannels == ModelledChans \cup {NumChannels}

\* Controller numbers (control.param is an unsigned int) and the one parameter
\* slot whose value the model keeps
EventParams == {NumParams - 1, NumParams}
ModelledParams == {p \in EventParams : p < NumParams}

\* control.value of channel-pressure and controller events, and of pitch-bend
\* events (the ends of the MIDI range)
PressureValues == {64, 127}
BendValues == {0 - 8192, 4096, 8191}

\* Values an uninitialized float can turn out to hold
Indeterminate == {0, 999}

VARIABLES
    modules,    \* Registry::modules, a sequence of Module pointers
    live,       \* the addresses that hold a constructed Module
    kindOf,     \* dynamic type of the object at each address
    ctorOrder,  \* history: live modules in order of construction
    playing,    \* SDL audio not paused (start() / stop())
    ptrSize,    \* sizeof ptr of the build
    cbPc,       \* position of Audio::callback
    cbFrames,   \* frames in the buffer SDL handed over (capacity = 2 floats each)
    cbLen,      \* the len argument, in bytes
    cbI,        \* loop variable i
    cbJ,        \* position of the range-for over registry->modules
    left,       \* Audio::left
    right,      \* Audio::right
    written,    \* floats written through ptr in this invocation
    outFrame,   \* the last frame written
    ticks,      \* history: ticks run so far
    tickLog,    \* history: what the current tick did, in order
    out,        \* output port of the producer at each address
    leftIn,     \* Speaker::left_in at each address
    rightIn,    \* Speaker::right_in at each address
    aHist,      \* history: value the producer A wrote in each of its updates
    bHist,      \* history: left_in value the Speaker B read in each of its updates
    cHist,      \* history: value the composite C read from A in each of its updates
    notes,      \* MIDI::Channel::notes of each channel, the set bits of the bitset
    frequency,  \* MIDI::Channel::frequency, in millihertz
    velocity,   \* MIDI::Channel::velocity, in units of 1/127
    releaseVelocity, \* MIDI::Channel::release_velocity, in units of 1/127
    gate,       \* MIDI::Channel::gate
    aftertouch, \* MIDI::Channel::aftertouch, in units of 1/127
    pitchBend,  \* MIDI::Channel::pitch_bend, in units of 1/BendDivisor
    parameter,  \* MIDI::Channel::parameter, in units of 1/127
    foreignWrites, \* process_event has stored outside the array it indexed
    midiPc,     \* "running", or "terminated" by an exception that left process_event
    cerrWrites, \* characters process_event has written to std::cerr
    queue,      \* events waiting in the sequencer's input queue, oldest first
    updPc,      \* position of MIDI::update: "idle", or "loop" at the top of while (true)
    drained,    \* history: events the current MIDI::update call handed to process_event
    pendingAtStart, \* history: the queue when the current MIDI::update call began
    arrivedInCall, \* history: events that arrived while the current call was running
    channelsAtStart, \* history: channels[] when the current MIDI::update call began
    pressVel,   \* history: the velocities each held note was pressed with
    lastEmptied, \* history: <<channel, velocity of the event, velocities the note was
                \* pressed with>> when the last event took its channel from held
                \* to empty, else <<>>
    seqFrequencies, \* Sequencer::frequencies, in millihertz
    seqIndex,   \* Sequencer::index
    seqClockIn, \* Sequencer::clock_in
    seqFrequencyOut, \* Sequencer::frequency_out
    seqGateOut, \* Sequencer::gate_out
    seqTicks,   \* history: Sequencer::update calls so far
    seqEdges,   \* history: ticks so far whose clock_in was > 0 after a tick (or a
                \* construction) with clock_in <= 0
    seqPrevClock, \* history: clock_in of the previous tick (0 before the first)
    seqPc,      \* "ok", or "crashed" by a fault in Sequencer::update
    seqReadOutside, \* history: an update has read frequencies at an index >= size()
    envState,   \* Envelope::state
    envAmplitude, \* Envelope::amplitude_out, in units of 1/AmpOne
    envGateIn,  \* Envelope::gate_in
    envAttack,  \* Envelope::attack, in ticks (attack / dt)
    envDecay,   \* Envelope::decay, as the halvings per tick (dt / decay)
    envRelease, \* Envelope::release, as the halvings per tick (dt / release)
    envGates,   \* history: gate_in in each tick so far
    envStates,  \* history: state after each tick so far
    envAmps,    \* history: amplitude_out after each tick so far
    delayBuffer, \* Delay::buffer, front first
    delayIn,    \* Delay::in
    delayDelay, \* Delay::delay, a float in units of 2^-39 s
    delayOut,   \* Delay::out, a float in units of 1/FracOne
    delayOutNaN, \* Delay::out is not a number
    delayPc,    \* "ok", or "crashed" by a fault in Delay::update
    delayK,     \* history: the whole number of samples delay was last set to
    delayInputs, \* history: in at each tick so far
    delaySamples, \* history: delayK at each tick so far
    delayReadOutside, \* history: an update has read buffer at an index >= buffer.size()
    slewIn,     \* LinearSlew::in, a float in grid units
    slewOut,    \* LinearSlew::out, a float in grid units
    slewStep,   \* the float rate * dt, in grid units
    slewTicks,  \* history: LinearSlew::update calls so far
    vcoStep,    \* the float VCO::frequency * dt, in units of 1/PhaseOne
    vcoSawtooth, \* VCO::sawtooth_out, in units of 1/PhaseOne
    vcoSquare,  \* VCO::square_out
    vcoTriangle, \* VCO::triangle_out, in units of 1/PhaseOne
    vcoTicks,   \* history: VCO::update calls so far
    vcoFalls,   \* history: ticks of the current cycle in which square_out went
                \* from +1 to -1
    mainPc,     \* position of main: "declare", "wait", "unwind", "exited"
    mainCount   \* locals of main that are constructed and not yet destroyed

regVars == <<modules, live, kindOf, ctorOrder>>
cbVars == <<cbPc, cbFrames, cbLen, cbI, cbJ, left, right, written, outFrame, ticks, tickLog>>
portVars == <<out, leftIn, rightIn, aHist, bHist, cHist>>
noteVars == <<notes, frequency, velocity, releaseVelocity, gate, pressVel>>
ctlVars == <<aftertouch, pitchBend, parameter, foreignWrites>>
inputVars == <<queue, updPc, drained, pendingAtStart, arrivedInCall, channelsAtStart>>
midiVars == <<noteVars, ctlVars, midiPc, cerrWrites, lastEmptied, inputVars>>
seqVars == <<seqFrequencies, seqIndex, seqClockIn, seqFrequencyOut, seqGateOut,
             seqTicks, seqEdges, seqPrevClock, seqPc, seqReadOutside>>
envVars == <<envState, envAmplitude, envGateIn, envAttack, envDecay, envRelease,
             envGates, envStates, envAmps>>
delayVars == <<delayBuffer, delayIn, delayDelay, delayOut, delayOutNaN, delayPc, delayK,
               delayInputs, delaySamples, delayReadOutside>>
slewVars == <<slewIn, slewOut, slewStep, slewTicks>>
vcoVars == <<vcoStep, vcoSawtooth, vcoSquare, vcoTriangle, vcoTicks, vcoFalls>>
unitVars == <<seqVars, envVars, delayVars, slewVars, vcoVars>>
mainVars == <<mainPc, mainCount>>
hostVars == <<regVars, playing, ptrSize, cbVars, portVars, midiVars, mainVars>>
vars == <<regVars, playing, ptrSize, cbVars, portVars, midiVars, unitVars, mainVars>>

Range(s) == {s[k] : k \in 1..Len(s)}

RECURSIVE Without(_, _)
\* s with every occurrence of p removed, order kept
Without(s, p) ==
    IF s = <<>> THEN <<>>
    ELSE IF Head(s) = p THEN Without(Tail(s), p)
    ELSE <<Head(s)>> \o Without(Tail(s), p)

(***************************************************************************)
(* Registry: Module::Module and Module::~Module.                           *)
(***************************************************************************)
\* Module::Module(): registry.modules.push_back(this)
Register(reg, p) == Append(reg, p)

\* Module::~Module(): registry.modules.push_back(this)
Unregister(reg, p) == Append(reg, p)

\* The host program constructs a module of dynamic type k in free storage p.
\* Every port starts at its default member initializer, 0.
Construct(p, k) ==
    /\ cbPc = "idle"
    /\ p \notin live
    /\ Len(modules) < MaxEntries
    /\ modules' = Register(modules, p)
    /\ live' = live \cup {p}
    /\ kindOf' = [kindOf EXCEPT ![p] = k]
    /\ ctorOrder' = Append(ctorOrder, p)
    /\ out' = [out EXCEPT ![p] = 0]
    /\ leftIn' = [leftIn EXCEPT ![p] = 0]
    /\ rightIn' = [rightIn EXCEPT ![p] = 0]
    /\ UNCHANGED <<mainVars, unitVars, midiVars, playing, ptrSize, cbVars, aHist, bHist, cHist>>

\* The host program destroys the module at p; its storage becomes free.
Destroy(p) ==
    /\ cbPc = "idle"
    /\ p \in live
    /\ Len(modules) < MaxEntries
    /\ modules' = Unregister(modules, p)
    /\ live' = live \ {p}
    /\ ctorOrder' = Without(ctorOrder, p)
    /\ UNCHANGED <<mainVars, unitVars, midiVars, kindOf, playing, ptrSize, cbVars, portVars>>

\* start(): SDL_PauseAudio(0)
Start ==
    /\ ~playing
    /\ playing' = TRUE
    /\ UNCHANGED <<mainVars, unitVars, midiVars, regVars, ptrSize, cbVars, portVars>>

\* stop(): SDL_PauseAudio(1); an invocation in progress runs to its end
Stop ==
    /\ playing
    /\ playing' = FALSE
    /\ UNCHANGED <<mainVars, unitVars, midiVars, regVars, ptrSize, cbVars, portVars>>

(***************************************************************************)
(* Audio::callback, one step per position.                                 *)
(***************************************************************************)
LogEntry(op, p) == [op |-> op, mod |-> p]

\* The loop bound of the callback: len / sizeof ptr
LoopBound(len, psize) == len \div psize

\* SDL calls the callback with a buffer of n stereo float frames.
InvokeCallback(n) ==
    /\ playing
    /\ cbPc = "idle"
    /\ ticks + LoopBound(n * Channels * SampleBytes, ptrSize) <= MaxTicks
    /\ cbFrames' = n
    /\ cbLen' = n * Channels * SampleBytes
    /\ cbI' = 0
    /\ written' = 0
    /\ cbPc' = "loop"
    /\ tickLog' = <<>>
    /\ UNCHANGED <<mainVars, unitVars, midiVars, regVars, playing, ptrSize, cbJ, left, right, outFrame, ticks,
                   portVars>>

\* i < len / sizeof ptr holds: left = 0; right = 0; the range-for starts
ResetAccumulators ==
    /\ cbPc = "loop"
    /\ cbI < LoopBound(cbLen, ptrSize)
    /\ left' = 0
    /\ right' = 0
    /\ cbJ' = 1
    /\ cbPc' = "update"
    /\ tickLog' = <<LogEntry("reset", 0)>>
    /\ UNCHANGED <<mainVars, unitVars, midiVars, regVars, playing, ptrSize, cbFrames, cbLen, cbI, written,
                   outFrame, ticks, portVars>>

\* Speaker::update
SpeakerUpdate(p) ==
    /\ left' = left + leftIn[p]
    /\ right' = right + rightIn[p]
    /\ bHist' = IF p = AddrB THEN Append(bHist, leftIn[p]) ELSE bHist
    /\ UNCHANGED <<out, leftIn, rightIn, aHist, cHist>>

\* update() of a producer (any module whose update overwrites its output)
SourceUpdate(p) ==
    /\ \E v \in Values :
        /\ out' = [out EXCEPT ![p] = v]
        /\ aHist' = IF p = AddrA THEN Append(aHist, v) ELSE aHist
    /\ UNCHANGED <<left, right, leftIn, rightIn, bHist, cHist>>

\* Mutant of Wire::update: the copy runs the wrong way (from = to)
WireUpdateReversed(p) ==
    /\ out' = [out EXCEPT ![AddrA] = leftIn[AddrB]]
    /\ UNCHANGED <<left, right, leftIn, rightIn, aHist, bHist, cHist>>

\* Mutant of Wire::update: the copy lands in the other input of B
WireUpdateWrongPort(p) ==
    /\ rightIn' = [rightIn EXCEPT ![AddrB] = out[AddrA]]
    /\ UNCHANGED <<left, right, out, leftIn, aHist, bHist, cHist>>

\* Wire::update, for the Wire {A.out, B.left_in}: to = from
WireUpdate(p) ==
    /\ leftIn' = [leftIn EXCEPT ![AddrB] = out[AddrA]]
    /\ UNCHANGED <<left, right, out, rightIn, aHist, bHist, cHist>>

\* update() of the composite, as in Example::update: assignments from a
\* member's output to a member's inputs
CompositeUpdate(p) ==
    /\ leftIn' = [leftIn EXCEPT ![AddrB] = out[AddrA]]
    /\ rightIn' = [rightIn EXCEPT ![AddrB] = out[AddrA]]
    /\ cHist' = Append(cHist, out[AddrA])
    /\ UNCHANGED <<left, right, out, aHist, bHist>>

\* mod->update() on an entry whose object is alive: virtual dispatch
UpdateModule ==
    /\ cbPc = "update"
    /\ cbJ <= Len(modules)
    /\ modules[cbJ] \in live
    /\ LET p == modules[cbJ] IN
        /\ CASE kindOf[p] = "Speaker" -> SpeakerUpdate(p)
             [] kindOf[p] = "Source" -> SourceUpdate(p)
             [] kindOf[p] = "Wire" -> WireUpdate(p)
             [] kindOf[p] = "Composite" -> CompositeUpdate(p)
        /\ tickLog' = Append(tickLog, LogEntry("update", p))
    /\ cbJ' = cbJ + 1
    /\ UNCHANGED <<mainVars, unitVars, midiVars, regVars, playing, ptrSize, cbPc, cbFrames, cbLen, cbI, written,
                   outFrame, ticks>>

\* mod->update() through a pointer to a destroyed object: undefined behaviour.
\* The call aborts the process (pure virtual call, bad vtable) or runs on the
\* dead storage without touching any live module.
UpdateDangling ==
    /\ cbPc = "update"
    /\ cbJ <= Len(modules)
    /\ modules[cbJ] \notin live
    /\ tickLog' = Append(tickLog, LogEntry("dangling", modules[cbJ]))
    /\ \/ cbPc' = "crashed" /\ cbJ' = cbJ
       \/ cbPc' = cbPc /\ cbJ' = cbJ + 1
    /\ UNCHANGED <<mainVars, unitVars, midiVars, regVars, playing, ptrSize, cbFrames, cbLen, cbI, left, right,
                   written, outFrame, ticks, portVars>>

\* *ptr++ = left * 0.1; *ptr++ = right * 0.1; i++ -- inside the buffer
WriteFrame ==
    /\ cbPc = "update"
    /\ cbJ > Len(modules)
    /\ written + 2 <= cbFrames * Channels
    /\ outFrame' = <<left \div 10, right \div 10>>
    /\ written' = written + 2
    /\ cbI' = cbI + 1
    /\ ticks' = ticks + 1
    /\ tickLog' = Append(tickLog, LogEntry("write", 0))
    /\ cbPc' = "loop"
    /\ UNCHANGED <<mainVars, unitVars, midiVars, regVars, playing, ptrSize, cbFrames, cbLen, cbJ, left, right,
                   portVars>>

\* The same two stores with ptr at or past the end of the buffer: undefined
\* behaviour.  The stores land in foreign memory, or the process faults.
WritePastEnd ==
    /\ cbPc = "update"
    /\ cbJ > Len(modules)
    /\ written + 2 > cbFrames * Channels
    /\ written' = written + 2
    /\ ticks' = ticks + 1
    /\ tickLog' = Append(tickLog, LogEntry("write", 0))
    /\ \/ cbPc' = "crashed" /\ cbI' = cbI
       \/ cbPc' = "loop" /\ cbI' = cbI + 1
    /\ UNCHANGED <<mainVars, unitVars, midiVars, regVars, playing, ptrSize, cbFrames, cbLen, cbJ, left, right,
                   outFrame, portVars>>

\* i < len / sizeof ptr fails: the callback returns
CallbackReturn ==
    /\ cbPc = "loop"
    /\ cbI >= LoopBound(cbLen, ptrSize)
    /\ cbPc' = "idle"
    /\ UNCHANGED <<mainVars, unitVars, midiVars, regVars, playing, ptrSize, cbFrames, cbLen, cbI, cbJ, left, right,
                   written, outFrame, ticks, tickLog, portVars>>

CallbackStep ==
    \/ \E n \in 1..MaxFrames : InvokeCallback(n)
    \/ ResetAccumulators
    \/ UpdateModule
    \/ WriteFrame
    \/ WritePastEnd
    \/ CallbackReturn

(***************************************************************************)
(* Specification of the registry under construction and destruction of     *)
(* Speaker modules by the host program.                                    *)
(***************************************************************************)
InitRegistry ==
    /\ modules = <<>>
    /\ live = {}
    /\ kindOf = [p \in Addr |-> "none"]
    /\ ctorOrder = <<>>
    /\ playing = FALSE
    /\ cbPc = "idle"
    /\ cbFrames = 0
    /\ cbLen = 0
    /\ cbI = 0
    /\ cbJ = 0
    /\ left = 0
    /\ right = 0
    /\ written = 0
    /\ outFrame = <<0, 0>>
    /\ ticks = 0
    /\ tickLog = <<>>
    /\ out = [p \in Addr |-> 0]
    /\ leftIn = [p \in Addr |-> 0]
    /\ rightIn = [p \in Addr |-> 0]
    /\ aHist = <<>>
    /\ bHist = <<>>
    /\ cHist = <<>>

\* No MIDI object in the program
InitNoMidi ==
    /\ notes = [c \in ModelledChans |-> {}]
    /\ frequency = [c \in ModelledChans |-> 0]
    /\ velocity = [c \in ModelledChans |-> 0]
    /\ releaseVelocity = [c \in ModelledChans |-> 0]
    /\ gate = [c \in ModelledChans |-> 0]
    /\ aftertouch = [c \in ModelledChans |-> 0]
    /\ pitchBend = [c \in ModelledChans |-> 0]
    /\ parameter = [c \in ModelledChans |-> [p \in ModelledParams |-> 0]]
    /\ foreignWrites = FALSE
    /\ queue = <<>>
    /\ updPc = "idle"
    /\ drained = <<>>
    /\ pendingAtStart = <<>>
    /\ arrivedInCall = <<>>
    /\ channelsAtStart = <<>>
    /\ midiPc = "running"
    /\ cerrWrites = 0
    /\ pressVel = [c \in ModelledChans |-> [n \in ValidNotes |-> {}]]
    /\ lastEmptied = <<>>

\* No Sequencer in the program
InitNoSequencer ==
    /\ seqFrequencies = <<>>
    /\ seqIndex = 0
    /\ seqClockIn = 0
    /\ seqFrequencyOut = 0
    /\ seqGateOut = 0
    /\ seqTicks = 0
    /\ seqEdges = 0
    /\ seqPrevClock = 0
    /\ seqPc = "ok"
    /\ seqReadOutside = FALSE

\* No Envelope in the program
InitNoEnvelope ==
    /\ envState = "RELEASE"
    /\ envAmplitude = 0
    /\ envGateIn = 0
    /\ envAttack = 1
    /\ envDecay = 1
    /\ envRelease = 1
    /\ envGates = <<>>
    /\ envStates = <<>>
    /\ envAmps = <<>>

\* No Delay in the program
InitNoDelay ==
    /\ delayBuffer = <<>>
    /\ delayIn = 0
    /\ delayDelay = 0
    /\ delayOut = 0
    /\ delayOutNaN = FALSE
    /\ delayPc = "ok"
    /\ delayK = 0
    /\ delayInputs = <<>>
    /\ delaySamples = <<>>
    /\ delayReadOutside = FALSE

\* No LinearSlew in the program
InitNoSlew ==
    /\ slewIn = 0
    /\ slewOut = 0
    /\ slewStep = 1
    /\ slewTicks = 0

\* The program is not one of the examples: main is not followed
InitNoMain ==
    /\ mainPc = "exited"
    /\ mainCount = 0

\* No VCO in the program
InitNoVco ==
    /\ vcoStep = 0
    /\ vcoSawtooth = 0
    /\ vcoSquare = 1
    /\ vcoTriangle = 0
    /\ vcoTicks = 0
    /\ vcoFalls = 0

\* None of the signal-processing modules in the program
InitNoUnits ==
    /\ InitNoSequencer
    /\ InitNoEnvelope
    /\ InitNoDelay
    /\ InitNoSlew
    /\ InitNoVco

Init ==
    /\ InitRegistry
    /\ ptrSize \in PtrSizes
    /\ InitNoMidi
    /\ InitNoUnits
    /\ InitNoMain

Next ==
    \/ \E p \in HostAddr : Construct(p, "Speaker")
    \/ \E p \in HostAddr : Destroy(p)
    \/ Start
    \/ Stop
    \/ CallbackStep
    \/ UpdateDangling

Spec == Init /\ [][Next]_vars

(***************************************************************************)
(* Specification of a patch: the host program builds either the three      *)
(* modules A, B and the Wire W in some order, or the composite C with its  *)
(* members A and B, then starts the audio output.                          *)
(***************************************************************************)
PatchKind == [A |-> "Source", B |-> "Speaker", W |-> "Wire", C |-> "Composite"]

\* Mutant: the composite registers after its members
CompositeCtorOrderMembersFirst == <<"A", "B", "C">>

\* Order in which a composite and its members run Module::Module(): the base
\* class subobject of the composite first, then the members as declared.
CompositeCtorOrder == <<"C", "A", "B">>

PatchComplete ==
    \/ {AddrA, AddrB, AddrW} \subseteq live
    \/ {AddrC, AddrA, AddrB} \subseteq live

\* The host program declares one of A, B, W.
PatchConstruct(n) ==
    /\ ~playing
    /\ ticks = 0
    /\ AddrC \notin live
    /\ Construct(PatchAddr[n], PatchKind[n])

\* The host program declares the composite: one constructor call that runs
\* Module::Module() for the composite and then for each member.
ConstructComposite ==
    /\ ~playing
    /\ ticks = 0
    /\ cbPc = "idle"
    /\ live = {}
    /\ LET ps == [k \in 1..3 |-> PatchAddr[CompositeCtorOrder[k]]] IN
        /\ modules' = Register(Register(Register(modules, ps[1]), ps[2]), ps[3])
        /\ ctorOrder' = ps
    /\ live' = {AddrC, AddrA, AddrB}
    /\ kindOf' = [p \in Addr |->
                    IF p = AddrC THEN PatchKind.C
                    ELSE IF p = AddrA THEN PatchKind.A
                    ELSE IF p = AddrB THEN PatchKind.B
                    ELSE kindOf[p]]
    /\ UNCHANGED <<mainVars, unitVars, midiVars, playing, ptrSize, cbVars, portVars>>

\* start(), called once the patch is declared (as in main)
PatchStart ==
    /\ PatchComplete
    /\ Start

NextPatch ==
    \/ \E n \in {"A", "B", "W"} : PatchConstruct(n)
    \/ ConstructComposite
    \/ PatchStart
    \/ Stop
    \/ CallbackStep

SpecPatch == Init /\ [][NextPatch]_vars

(***************************************************************************)
(* Specification of the example programs: main declares its modules and    *)
(* wires, calls start(), waits for a line of input and returns; the locals *)
(* are destroyed in reverse order and then the static Audio object is.     *)
(* The audio thread runs the callback alongside.                           *)
(***************************************************************************)
\* The locals of main in declaration order: components, then the wires
MainLocals == <<"A", "B", "W">>

\* main up to start(): nothing is declared yet, the audio device is open
\* and paused
InitMain ==
    /\ mainPc = "declare"
    /\ mainCount = 0

\* A declaration in main runs Module::Module() for the next local
MainDeclare ==
    /\ mainPc = "declare"
    /\ cbPc # "crashed"
    /\ mainCount < Len(MainLocals)
    /\ LET p == PatchAddr[MainLocals[mainCount + 1]] IN
        /\ modules' = Register(modules, p)
        /\ live' = live \cup {p}
        /\ kindOf' = [kindOf EXCEPT ![p] = PatchKind[MainLocals[mainCount + 1]]]
        /\ ctorOrder' = Append(ctorOrder, p)
    /\ mainCount' = mainCount + 1
    /\ UNCHANGED <<mainPc, unitVars, midiVars, playing, ptrSize, cbVars, portVars>>

\* start();
MainStart ==
    /\ mainPc = "declare"
    /\ cbPc # "crashed"
    /\ mainCount = Len(MainLocals)
    /\ playing' = TRUE
    /\ mainPc' = "wait"
    /\ UNCHANGED <<mainCount, unitVars, midiVars, regVars, ptrSize, cbVars, portVars>>

\* std::cin.get() returns and main reaches its closing brace
MainReturn ==
    /\ mainPc = "wait"
    /\ cbPc # "crashed"
    /\ mainPc' = "unwind"
    /\ UNCHANGED <<mainCount, unitVars, midiVars, regVars, playing, ptrSize, cbVars, portVars>>

\* Leaving main runs Module::~Module() for the last local still alive.  A
\* push_back while the callback is inside its range-for over the vector is
\* a data race: the iteration goes on, or the process faults.
MainDestroy ==
    /\ mainPc = "unwind"
    /\ cbPc # "crashed"
    /\ mainCount > 0
    /\ LET p == PatchAddr[MainLocals[mainCount]] IN
        /\ modules' = Unregister(modules, p)
        /\ live' = live \ {p}
        /\ ctorOrder' = Without(ctorOrder, p)
    /\ mainCount' = mainCount - 1
    /\ cbPc' \in (IF cbPc = "update" THEN {cbPc, "crashed"} ELSE {cbPc})
    /\ UNCHANGED <<mainPc, unitVars, midiVars, kindOf, playing, ptrSize, cbFrames, cbLen,
                   cbI, cbJ, left, right, written, outFrame, ticks, tickLog, portVars>>

\* Audio::~Audio() at static destruction: SDL_Quit() closes the device once
\* the callback has returned
AudioQuit ==
    /\ mainPc = "unwind"
    /\ mainCount = 0
    /\ cbPc = "idle"
    /\ playing' = FALSE
    /\ mainPc' = "exited"
    /\ UNCHANGED <<mainCount, unitVars, midiVars, regVars, ptrSize, cbVars, portVars>>

InitMainSpec ==
    /\ InitRegistry
    /\ ptrSize \in PtrSizes
    /\ InitNoMidi
    /\ InitNoUnits
    /\ InitMain

NextMain ==
    \/ MainDeclare
    \/ MainStart
    \/ MainReturn
    \/ MainDestroy
    \/ AudioQuit
    \/ CallbackStep
    \/ UpdateDangling

SpecMain == InitMainSpec /\ [][NextMain]_vars

(***************************************************************************)
(* Properties of the registry and the scheduler.                           *)
(***************************************************************************)
\* The modules the current tick has called update() on, in call order
RECURSIVE UpdatedIn(_)
UpdatedIn(log) ==
    IF log = <<>> THEN <<>>
    ELSE IF Head(log).op = "update" THEN <<Head(log).mod>> \o UpdatedIn(Tail(log))
    ELSE UpdatedIn(Tail(log))

DanglingCalls == {k \in 1..Len(tickLog) : tickLog[k].op = "dangling"}

\* The callback has just finished a tick (it is back at the loop test)
TickDone == cbPc = "loop" /\ tickLog # <<>> /\ tickLog[Len(tickLog)].op = "write"

\* C1: once a module has been destroyed (with the callback not running) the
\* Registry holds no entry for it, and no tick calls update() on it.
C1_DestroyedModuleUnregistered ==
    /\ \A p \in Addr : p \notin live => p \notin Range(modules)
    /\ DanglingCalls = {}

\* C2: a completed tick first reset the accumulators, then called update() on
\* each live module exactly once in construction order, then wrote the frame.
C2_TickUpdatesEachLiveModuleOnce ==
    TickDone =>
        /\ tickLog[1].op = "reset"
        /\ UpdatedIn(tickLog) = ctorOrder
        /\ \A k \in 2..(Len(tickLog) - 1) : tickLog[k].op # "write" /\ tickLog[k].op # "reset"

\* C6: an invocation on a buffer of N frames never writes past the 2N floats of
\* the buffer, and when it returns it has run N ticks and written 2N floats.
C6_CallbackFillsBufferExactly ==
    /\ written <= cbFrames * Channels
    /\ (cbPc = "idle" /\ cbFrames > 0) =>
            /\ cbI = cbFrames
            /\ written = cbFrames * Channels

(***************************************************************************)
(* Properties of the patch.                                                *)
(***************************************************************************)
\* B read, in each tick from the second on, what A wrote d ticks earlier
DelayedBy(d) ==
    \A t \in (d + 1)..Len(bHist) : t - d <= Len(aHist) /\ bHist[t] = aHist[t - d]

\* B read the initial value of its input in each of the first d ticks
InitialFor(d) == \A t \in 1..d : t <= Len(bHist) => bHist[t] = 0

OrderABW == modules = <<AddrA, AddrB, AddrW>>

\* C3 as claimed: with registry order A, B, Wire the value B reads in tick t is
\* the value A wrote in the same tick t.
C3_SameTickValue ==
    OrderABW => \A t \in 1..Len(bHist) : t <= Len(aHist) /\ bHist[t] = aHist[t]

\* C3 amended: with registry order A, B, Wire the value B reads in tick t >= 2
\* is the value A wrote in tick t-1; in tick 1 B reads its input's initial value.
C3_PreviousTickValue == OrderABW => DelayedBy(1) /\ InitialFor(1)

C3_Witness == OrderABW /\ Len(bHist) >= 3 /\ aHist[1] # aHist[2] /\ aHist[2] # aHist[3]

WireOrBBeforeA ==
    {<<AddrB, AddrA, AddrW>>, <<AddrB, AddrW, AddrA>>,
     <<AddrW, AddrA, AddrB>>, <<AddrW, AddrB, AddrA>>}

OrderBWA == modules = <<AddrB, AddrW, AddrA>>

\* C4 as claimed: in every order with the Wire or B before A, B reads in tick
\* t >= 2 exactly the value A wrote in tick t-1.
C4_OneTickDelay == modules \in WireOrBBeforeA => DelayedBy(1)

\* C4 amended: the delay is one tick in the orders (B, A, Wire), (Wire, A, B)
\* and (Wire, B, A), and two ticks in the order (B, Wire, A).
C4_OneOrTwoTickDelay ==
    /\ (modules \in WireOrBBeforeA /\ ~OrderBWA) => DelayedBy(1) /\ InitialFor(1)
    /\ OrderBWA => DelayedBy(2) /\ InitialFor(2)

C4_Witness == OrderBWA /\ Len(bHist) >= 4 /\ aHist[1] # aHist[2] /\ bHist[4] = aHist[2]

CompositePatch == AddrC \in live

Position(p) == CHOOSE k \in 1..Len(modules) : modules[k] = p

\* C5: the composite is registered before its members, in every tick its
\* update() runs before any member's, and what it reads from member A in tick
\* t >= 2 is what A wrote in tick t-1 (in tick 1, A's initial output).
C5_CompositeRunsFirst ==
    CompositePatch =>
        /\ Position(AddrC) < Position(AddrA) /\ Position(AddrC) < Position(AddrB)
        /\ \A j \in 1..Len(tickLog) :
            (tickLog[j].op = "update" /\ tickLog[j].mod \in {AddrA, AddrB}) =>
                \E i \in 1..(j - 1) : tickLog[i] = LogEntry("update", AddrC)
        /\ \A t \in 2..Len(cHist) : t - 1 <= Len(aHist) /\ cHist[t] = aHist[t - 1]
        /\ Len(cHist) >= 1 => cHist[1] = 0

C5_Witness == CompositePatch /\ Len(cHist) >= 3 /\ aHist[1] # aHist[2] /\ aHist[1] # 0

(***************************************************************************)
(* The MIDI adapter: MIDI::process_event on the per-channel state.         *)
(***************************************************************************)
\* 440 * 2^(k/12) in millihertz for the twelve semitones k = 0..11 above A4
SemitoneMilliHz ==
    <<440000, 466164, 493883, 523251, 554365, 587330,
      622254, 659255, 698456, 739989, 783991, 830609>>

\* note_to_frequency: 440.0f * exp2((note - 69.0f) / 12.0f), in millihertz
NoteToFrequency(note) ==
    LET d == note - 69
        octave == d \div 12
        base == SemitoneMilliHz[(d % 12) + 1]
    IN IF octave >= 0 THEN base * 2^octave ELSE base \div 2^(0 - octave)

\* Mutant of highest_note_frequency: the loop stops before note 0
HighestNoteFrequencySkipsZero(ns) ==
    LET visited == ns \cap (1..(NumNotes - 1))
        found == {note \in visited : \A m \in visited : m <= note}
    IN IF found = {} THEN 0 ELSE NoteToFrequency(CHOOSE note \in found : TRUE)

\* highest_note_frequency: for (uint8_t note = 128; note--;) visits the notes
\* 127 down to 0 and returns at the first whose bit is set, that is at the set
\* bit with no set bit above it; return {} when the loop runs out.
HighestNoteFrequency(ns) ==
    LET visited == ns \cap (0..(NumNotes - 1))
        found == {note \in visited : \A m \in visited : m <= note}
    IN IF found = {} THEN 0 ELSE NoteToFrequency(CHOOSE note \in found : TRUE)

\* The velocity branch of NOTEON: a key is pressed
NotePressed(c, n, v) ==
    /\ velocity' = IF notes[c] = {} THEN [velocity EXCEPT ![c] = v] ELSE velocity
    /\ IF n >= NumNotes
       THEN \* bitset::set throws std::out_of_range; nothing catches it
            /\ midiPc' = "terminated"
            /\ UNCHANGED <<notes, frequency, gate, pressVel>>
       ELSE /\ notes' = [notes EXCEPT ![c] = @ \cup {n}]
            /\ frequency' = [frequency EXCEPT ![c] = HighestNoteFrequency(notes[c] \cup {n})]
            /\ gate' = [gate EXCEPT ![c] = 1]
            /\ pressVel' = [pressVel EXCEPT ![c][n] = @ \cup {v}]
            /\ UNCHANGED midiPc
    /\ lastEmptied' = <<>>
    /\ UNCHANGED releaseVelocity

\* NOTEOFF, and the zero-velocity branch of NOTEON: a key is released
NoteReleased(c, n, v) ==
    /\ IF n >= NumNotes
       THEN \* bitset::reset throws std::out_of_range; nothing catches it
            /\ midiPc' = "terminated"
            /\ lastEmptied' = <<>>
            /\ UNCHANGED <<notes, frequency, releaseVelocity, gate, pressVel>>
       ELSE /\ notes' = [notes EXCEPT ![c] = @ \ {n}]
            /\ IF notes[c] \ {n} = {}
               THEN /\ releaseVelocity' = [releaseVelocity EXCEPT ![c] = velocity[c]]
                    /\ gate' = [gate EXCEPT ![c] = 0]
                    /\ UNCHANGED frequency
               ELSE /\ frequency' = [frequency EXCEPT ![c] = HighestNoteFrequency(notes[c] \ {n})]
                    /\ UNCHANGED <<releaseVelocity, gate>>
            /\ lastEmptied' = IF n \in notes[c] /\ notes[c] \ {n} = {}
                              THEN <<c, v, pressVel[c][n]>> ELSE <<>>
            /\ pressVel' = [pressVel EXCEPT ![c][n] = {}]
            /\ UNCHANGED midiPc
    /\ UNCHANGED velocity

\* KEYPRESS: auto frequency = event->data.note.note; the channel's frequency
\* (a float in Hz, here in millihertz) is compared with the note NUMBER.
KeyPressure(c, n, v) ==
    /\ aftertouch' = IF frequency[c] = n * 1000
                      THEN [aftertouch EXCEPT ![c] = v] ELSE aftertouch
    /\ UNCHANGED <<pitchBend, parameter, foreignWrites, midiPc>>

\* CHANPRESS: ch.aftertouch = value / 127.0f
ChannelPressure(c, val) ==
    /\ aftertouch' = [aftertouch EXCEPT ![c] = val]
    /\ UNCHANGED <<pitchBend, parameter, foreignWrites, midiPc>>

\* PITCHBEND: ch.pitch_bend = value / 4096.0f
PitchBend(c, val) ==
    /\ pitchBend' = [pitchBend EXCEPT ![c] = val]
    /\ UNCHANGED <<aftertouch, parameter, foreignWrites, midiPc>>

\* A store through an index past the end of channels[] or of parameter[]:
\* undefined behaviour.  The store lands in whatever follows the array, or the
\* process faults.
StoreOutOfRange ==
    /\ \/ foreignWrites' = TRUE /\ UNCHANGED midiPc
       \/ midiPc' = "crashed" /\ UNCHANGED foreignWrites
    /\ UNCHANGED <<aftertouch, pitchBend, parameter>>

\* CONTROLLER: ch.parameter[param] = value / 127.0f, param is not checked
ControlChange(c, p, val) ==
    IF p < NumParams
    THEN /\ parameter' = [parameter EXCEPT ![c][p] = val]
         /\ UNCHANGED <<aftertouch, pitchBend, foreignWrites, midiPc>>
    ELSE StoreOutOfRange

NoteTypes == {"NOTEON", "NOTEOFF", "KEYPRESS"}
ControlTypes == {"CHANPRESS", "PITCHBEND", "CONTROLLER"}
RecognizedTypes == NoteTypes \cup ControlTypes

\* snd_seq_event_t: the type and the fields of data.note or data.control the
\* handler of that type reads (the others are kept at 0).
\* Well-addressed note events and an event of a type process_event has no case
\* for:
MidiEvents ==
    [type : NoteTypes, channel : ModelledChans, note : EventNotes,
     velocity : EventVelocities, param : {0}, value : {0}]
    \cup [type : {"SENSING"}, channel : {0}, note : {0},
          velocity : {0}, param : {0}, value : {0}]

\* Events of every type, with channel, note and controller numbers inside and
\* outside the arrays they index:
AllMidiEvents ==
    [type : NoteTypes, channel : EventChannels, note : {55, NumNotes},
     velocity : {0, 100}, param : {0}, value : {0}]
    \cup [type : {"CHANPRESS"}, channel : EventChannels, note : {0},
          velocity : {0}, param : {0}, value : PressureValues]
    \cup [type : {"PITCHBEND"}, channel : EventChannels, note : {0},
          velocity : {0}, param : {0}, value : BendValues]
    \cup [type : {"CONTROLLER"}, channel : EventChannels, note : {0},
          velocity : {0}, param : EventParams, value : PressureValues]
    \cup [type : {"SENSING"}, channel : {0}, note : {0},
          velocity : {0}, param : {0}, value : {0}]

\* MIDI::process_event
ProcessEvent(ev) ==
    /\ midiPc = "running"
    /\ cerrWrites < MaxEvents
    /\ cerrWrites' = cerrWrites + 1
    /\ CASE ev.type \in RecognizedTypes /\ ev.channel >= NumChannels ->
                \* auto &ch = channels[channel] names storage past the array
                /\ StoreOutOfRange
                /\ lastEmptied' = <<>>
                /\ UNCHANGED noteVars
         [] ev.type = "NOTEON" /\ ev.channel < NumChannels ->
                /\ IF ev.velocity # 0
                   THEN NotePressed(ev.channel, ev.note, ev.velocity)
                   ELSE NoteReleased(ev.channel, ev.note, ev.velocity)
                /\ UNCHANGED ctlVars
         [] ev.type = "NOTEOFF" /\ ev.channel < NumChannels ->
                /\ NoteReleased(ev.channel, ev.note, ev.velocity)
                /\ UNCHANGED ctlVars
         [] ev.type = "KEYPRESS" /\ ev.channel < NumChannels ->
                /\ KeyPressure(ev.channel, ev.note, ev.velocity)
                /\ lastEmptied' = <<>>
                /\ UNCHANGED noteVars
         [] ev.type = "CHANPRESS" /\ ev.channel < NumChannels ->
                /\ ChannelPressure(ev.channel, ev.value)
                /\ lastEmptied' = <<>>
                /\ UNCHANGED noteVars
         [] ev.type = "PITCHBEND" /\ ev.channel < NumChannels ->
                /\ PitchBend(ev.channel, ev.value)
                /\ lastEmptied' = <<>>
                /\ UNCHANGED noteVars
         [] ev.type = "CONTROLLER" /\ ev.channel < NumChannels ->
                /\ ControlChange(ev.channel, ev.param, ev.value)
                /\ lastEmptied' = <<>>
                /\ UNCHANGED noteVars
         [] OTHER ->
                /\ lastEmptied' = <<>>
                /\ UNCHANGED <<noteVars, ctlVars, midiPc>>
    /\ UNCHANGED <<regVars, playing, ptrSize, cbVars, portVars, mainVars, unitVars>>

\* MIDI::MIDI leaves channels[] default-initialized: the bitset is cleared by
\* its constructor, the float members hold whatever the storage held.
InitMidi ==
    /\ InitRegistry
    /\ ptrSize \in {8}     \* process_event does not depend on the pointer size
    /\ notes = [c \in ModelledChans |-> {}]
    /\ \E g \in [ModelledChans -> Indeterminate] :
        /\ frequency = g
        /\ velocity = g
        /\ releaseVelocity = g
        /\ gate = g
        /\ aftertouch = g
        /\ pitchBend = g
        /\ parameter = [c \in ModelledChans |-> [p \in ModelledParams |-> g[c]]]
    /\ foreignWrites = FALSE
    /\ queue = <<>>
    /\ updPc = "idle"
    /\ drained = <<>>
    /\ pendingAtStart = <<>>
    /\ arrivedInCall = <<>>
    /\ channelsAtStart = <<>>
    /\ midiPc = "running"
    /\ cerrWrites = 0
    /\ pressVel = [c \in ModelledChans |-> [n \in ValidNotes |-> {}]]
    /\ lastEmptied = <<>>
    /\ InitNoUnits
    /\ InitNoMain

\* MIDI::update has got ev from the sequencer and hands it to process_event
\* (the queue is not part of this specification).
DeliverEvent(ev) ==
    /\ ProcessEvent(ev)
    /\ UNCHANGED inputVars

NextMidi == \E ev \in MidiEvents : DeliverEvent(ev)

SpecMidi == InitMidi /\ [][NextMidi]_vars

\* The same handler under events of every type, malformed ones included
NextMidiAll == \E ev \in AllMidiEvents : DeliverEvent(ev)

SpecMidiAll == InitMidi /\ [][NextMidiAll]_vars

(***************************************************************************)
(* MIDI::update and the input queue of the ALSA sequencer, which is opened *)
(* non-blocking.  snd_seq_event_input(seq, &event) sets event to NULL,     *)
(* then either hands out the oldest waiting event and returns a positive   *)
(* number, or returns -EAGAIN when none waits.                             *)
(***************************************************************************)
UpdateEvents ==
    [type : {"NOTEON", "NOTEOFF"}, channel : {0}, note : {55, NumNotes},
     velocity : {0, 100}, param : {0}, value : {0}]
    \cup [type : {"SENSING"}, channel : {0}, note : {0},
          velocity : {0}, param : {0}, value : {0}]

\* A MIDI peer sends an event to the port: the sequencer queues it.
EventArrives(ev) ==
    /\ midiPc = "running"
    /\ Len(queue) < MaxQueue
    /\ cerrWrites + Len(queue) < MaxEvents
    /\ queue' = Append(queue, ev)
    /\ arrivedInCall' = IF updPc = "loop" THEN Append(arrivedInCall, ev) ELSE arrivedInCall
    /\ UNCHANGED <<noteVars, ctlVars, midiPc, cerrWrites, lastEmptied, updPc, drained,
                   pendingAtStart, channelsAtStart, regVars, playing, ptrSize, cbVars,
                   portVars, mainVars, unitVars>>

\* The tick calls MIDI::update: while (true) is entered
UpdateBegin ==
    /\ midiPc = "running"
    /\ updPc = "idle"
    /\ updPc' = "loop"
    /\ pendingAtStart' = queue
    /\ drained' = <<>>
    /\ arrivedInCall' = <<>>
    /\ channelsAtStart' = <<noteVars, ctlVars>>
    /\ UNCHANGED <<noteVars, ctlVars, midiPc, cerrWrites, lastEmptied, queue,
                   regVars, playing, ptrSize, cbVars, portVars, mainVars, unitVars>>

\* One iteration with an event waiting: snd_seq_event_input hands it out,
\* process_event handles it, and the loop goes on while left > 0.  The return
\* value is documented as the size of what remains in the input buffer; the
\* library returns 1 for every event it hands out.
UpdatePoll ==
    /\ updPc = "loop"
    /\ queue # <<>>
    /\ LET event == Head(queue) IN
        /\ queue' = Tail(queue)
        /\ ProcessEvent(event)
        /\ drained' = Append(drained, event)
    /\ IF midiPc' = "running"
       THEN \E leftover \in {Len(Tail(queue)), 1} :
                updPc' = IF leftover <= 0 THEN "idle" ELSE "loop"
       ELSE updPc' = updPc      \* the exception leaves update; nothing resumes it
    /\ UNCHANGED <<pendingAtStart, arrivedInCall, channelsAtStart>>

\* One iteration with no event waiting: event is NULL, left is -EAGAIN, break
UpdatePollEmpty ==
    /\ midiPc = "running"
    /\ updPc = "loop"
    /\ queue = <<>>
    /\ updPc' = "idle"
    /\ UNCHANGED <<noteVars, ctlVars, midiPc, cerrWrites, lastEmptied, queue, drained,
                   pendingAtStart, arrivedInCall, channelsAtStart, regVars, playing,
                   ptrSize, cbVars, portVars, mainVars, unitVars>>

NextMidiUpdate ==
    \/ \E ev \in UpdateEvents : EventArrives(ev)
    \/ UpdateBegin
    \/ UpdatePoll
    \/ UpdatePollEmpty

SpecMidiUpdate == InitMidi /\ [][NextMidiUpdate]_vars

(***************************************************************************)
(* Sequencer.                                                              *)
(***************************************************************************)
\* base_notes: semitones above C of each note name
BaseNotes ==
    ("Cb" :> 0 - 1) @@ ("C" :> 0) @@ ("C#" :> 1) @@
    ("Db" :> 1) @@ ("D" :> 2) @@ ("D#" :> 3) @@
    ("Eb" :> 3) @@ ("E" :> 4) @@ ("E#" :> 5) @@
    ("Fb" :> 4) @@ ("F" :> 5) @@ ("F#" :> 6) @@
    ("Gb" :> 6) @@ ("G" :> 7) @@ ("G#" :> 8) @@
    ("Ab" :> 8) @@ ("A" :> 9) @@ ("A#" :> 10) @@
    ("Bb" :> 10) @@ ("B" :> 11) @@ ("B#" :> 12)

\* A note string split at its first digit: "Bb3" is [name |-> "Bb", octave |-> 3]
NoteString(name, octave) == [name |-> name, octave |-> octave]

\* 440.0f * exp2((base_note - 9) / 12.0f + octave - 4), in millihertz: the
\* note lies (base_note - 9) + 12 * (octave - 4) semitones above A4, which is
\* MIDI note 69
SequencerFrequency(note) ==
    NoteToFrequency(69 + (BaseNotes[note.name] - 9) + 12 * (note.octave - 4))

\* The start of the note list of the example patch
ExampleNotes ==
    <<NoteString("C", 4), NoteString("E", 4), NoteString("G", 4), NoteString("C", 5),
      NoteString("D", 4), NoteString("F", 4), NoteString("A", 4), NoteString("D", 5)>>

\* Note lists a Sequencer is constructed from in the model
NoteLists == {SubSeq(ExampleNotes, 1, n) : n \in 1..MaxSeqLen}

\* Sequencer::Sequencer(notes): the frequencies of the notes, index at
\* size() - 1 (for an empty list the size_t wraps to SIZE_MAX, written -1:
\* one more is 0); clock_in has a default member initializer, frequency_out
\* and gate_out have none and hold whatever the storage held.
SequencerCtor(list) ==
    /\ seqFrequencies = [k \in 1..Len(list) |-> SequencerFrequency(list[k])]
    /\ seqIndex = Len(list) - 1
    /\ seqClockIn = 0
    /\ seqFrequencyOut \in Indeterminate
    /\ seqGateOut \in Indeterminate
    /\ seqTicks = 0
    /\ seqEdges = 0
    /\ seqPrevClock = 0
    /\ seqPc = "ok"
    /\ seqReadOutside = FALSE

\* A Sequencer constructed from a list of one or more notes
InitSequencer == \E list \in NoteLists : SequencerCtor(list)

\* Values the clock input takes: the square wave of a VCO, and zero
ClockValues == {0 - 1, 0, 1}

\* A Wire or the host program writes clock_in
ClockWrite(c) ==
    /\ seqPc = "ok"
    /\ seqTicks < MaxSeqTicks
    /\ c # seqClockIn
    /\ seqClockIn' = c
    /\ UNCHANGED <<seqFrequencies, seqIndex, seqFrequencyOut, seqGateOut, seqTicks,
                   seqEdges, seqPrevClock, seqPc, seqReadOutside, envVars, delayVars, slewVars, vcoVars, hostVars>>

\* Mutant of Sequencer::update: the index advances on every tick with the
\* clock high
SequencerUpdateLevelTriggered ==
    /\ seqPc = "ok"
    /\ seqFrequencies # <<>>
    /\ seqTicks < MaxSeqTicks
    /\ LET index == IF seqClockIn > 0
                     THEN (seqIndex + 1) % Len(seqFrequencies) ELSE seqIndex
       IN /\ seqIndex' = index
          /\ seqFrequencyOut' = seqFrequencies[index + 1]
    /\ seqGateOut' = IF seqClockIn > 0 THEN 1 ELSE 0
    /\ seqTicks' = seqTicks + 1
    /\ seqEdges' = IF seqClockIn > 0 /\ seqPrevClock <= 0 THEN seqEdges + 1 ELSE seqEdges
    /\ seqPrevClock' = seqClockIn
    /\ UNCHANGED <<seqFrequencies, seqClockIn, seqPc, seqReadOutside, envVars, delayVars,
                   slewVars, vcoVars, hostVars>>

\* Sequencer::update
SequencerUpdate ==
    /\ seqPc = "ok"
    /\ seqFrequencies # <<>>
    /\ seqTicks < MaxSeqTicks
    /\ LET index == IF seqClockIn > 0 /\ seqGateOut = 0
                     THEN (seqIndex + 1) % Len(seqFrequencies) ELSE seqIndex
       IN /\ seqIndex' = index
          /\ seqFrequencyOut' = seqFrequencies[index + 1]
    /\ seqGateOut' = IF seqClockIn > 0 THEN 1 ELSE 0
    /\ seqTicks' = seqTicks + 1
    /\ seqEdges' = IF seqClockIn > 0 /\ seqPrevClock <= 0 THEN seqEdges + 1 ELSE seqEdges
    /\ seqPrevClock' = seqClockIn
    /\ UNCHANGED <<seqFrequencies, seqClockIn, seqPc, seqReadOutside, envVars, delayVars,
                   slewVars, vcoVars, hostVars>>

InitSequencerSpec ==
    /\ InitRegistry
    /\ InitNoVco
    /\ InitNoMain
    /\ ptrSize \in {8}
    /\ InitNoMidi
    /\ InitSequencer
    /\ InitNoEnvelope
    /\ InitNoDelay
    /\ InitNoSlew

NextSequencer ==
    \/ \E c \in ClockValues : ClockWrite(c)
    \/ SequencerUpdate

SpecSequencer == InitSequencerSpec /\ [][NextSequencer]_vars

(***************************************************************************)
(* Specification of a Sequencer constructed from any list, the empty one   *)
(* included.                                                               *)
(***************************************************************************)
AnyNoteLists == NoteLists \cup {<<>>}

\* Sequencer::update with frequencies empty.  On a rising edge index++ is
\* followed by index %= 0, and frequencies[index] reads a vector with no
\* element: undefined behaviour both.  The update faults, or goes on with
\* some index and some float.
SequencerUpdateEmpty ==
    /\ seqPc = "ok"
    /\ seqFrequencies = <<>>
    /\ seqTicks < MaxSeqTicks
    /\ seqReadOutside' = TRUE
    /\ \/ /\ seqPc' = "crashed"
          /\ UNCHANGED <<seqIndex, seqFrequencyOut, seqGateOut>>
       \/ /\ seqIndex' \in (IF seqClockIn > 0 /\ seqGateOut = 0
                             THEN {0 - 1, 0} ELSE {seqIndex})
          /\ seqFrequencyOut' \in Indeterminate
          /\ seqGateOut' = IF seqClockIn > 0 THEN 1 ELSE 0
          /\ UNCHANGED seqPc
    /\ seqTicks' = seqTicks + 1
    /\ seqEdges' = IF seqClockIn > 0 /\ seqPrevClock <= 0 THEN seqEdges + 1 ELSE seqEdges
    /\ seqPrevClock' = seqClockIn
    /\ UNCHANGED <<seqFrequencies, seqClockIn, envVars, delayVars, slewVars, vcoVars, hostVars>>

InitSequencerAny ==
    /\ InitRegistry
    /\ InitNoVco
    /\ InitNoMain
    /\ ptrSize \in {8}
    /\ InitNoMidi
    /\ \E list \in AnyNoteLists : SequencerCtor(list)
    /\ InitNoEnvelope
    /\ InitNoDelay
    /\ InitNoSlew

NextSequencerAny ==
    \/ \E c \in ClockValues : ClockWrite(c)
    \/ SequencerUpdate
    \/ SequencerUpdateEmpty

SpecSequencerAny == InitSequencerAny /\ [][NextSequencerAny]_vars

(***************************************************************************)
(* Envelope.  The amplitude is kept on a grid of AmpOne steps; the attack  *)
(* time is a whole number of ticks, so that dt / attack is a whole number  *)
(* of steps, and the decay and release times are fractions 1/k of dt, so   *)
(* that exp2(-dt / decay) is the exact factor 2^-k (rounded down to the    *)
(* grid).                                                                  *)
(***************************************************************************)
\* 1.0f on the amplitude grid
AmpOne == 12

\* Values of the anonymous enum: its three enumerators, and OTHER for any
\* value of the underlying type that is none of them
EnvelopeStates == {"ATTACK", "DECAY", "RELEASE", "OTHER"}

\* Envelope::Envelope(attack, decay, release): the inputs and amplitude_out
\* have default member initializers, state has none and holds whatever the
\* storage held.
InitEnvelope ==
    /\ envState \in EnvelopeStates
    /\ envAmplitude = 0
    /\ envGateIn = 0
    /\ envAttack \in 1..MaxAttack
    /\ envDecay \in {1}
    /\ envRelease \in {1, 2}
    /\ envGates = <<>>
    /\ envStates = <<>>
    /\ envAmps = <<>>

\* Values the gate input takes: the gate of a Sequencer or of a MIDI channel
GateValues == {0, 1}

\* A Wire or the host program writes gate_in
GateWrite(g) ==
    /\ Len(envGates) < MaxEnvTicks
    /\ g # envGateIn
    /\ envGateIn' = g
    /\ UNCHANGED <<envState, envAmplitude, envAttack, envDecay, envRelease, envGates,
                   envStates, envAmps, seqVars, delayVars, slewVars, vcoVars, hostVars>>

\* amplitude_out += dt / attack
AttackStep(a) == a + AmpOne \div envAttack

\* Mutant of the decay: the exponent has the wrong sign, exp2(dt / time)
DecayStepGrows(a, k) == a * 2^k

\* amplitude_out *= std::exp2(-dt / time), for dt / time = k
DecayStep(a, k) == a \div 2^k

\* Mutant of the first statement of Envelope::update: a high gate restarts
\* the attack from the decay phase too
EnvelopeGateRetriggers ==
    IF envGateIn <= 0 THEN "RELEASE"
    ELSE IF envState \in {"RELEASE", "DECAY"} THEN "ATTACK"
    ELSE envState

\* The first statement of Envelope::update: if (gate_in <= 0.0f) state =
\* RELEASE; else if (state == RELEASE) state = ATTACK;
EnvelopeGate ==
    IF envGateIn <= 0 THEN "RELEASE"
    ELSE IF envState = "RELEASE" THEN "ATTACK"
    ELSE envState

\* Envelope::update
EnvelopeUpdate ==
    /\ Len(envGates) < MaxEnvTicks
    /\ LET state == EnvelopeGate
           after ==
               CASE state = "ATTACK" ->
                        IF AttackStep(envAmplitude) >= AmpOne
                        THEN <<"DECAY", AmpOne>>
                        ELSE <<"ATTACK", AttackStep(envAmplitude)>>
                 [] state = "DECAY" -> <<"DECAY", DecayStep(envAmplitude, envDecay)>>
                 [] state = "RELEASE" -> <<"RELEASE", DecayStep(envAmplitude, envRelease)>>
                 [] OTHER -> <<state, envAmplitude>>     \* no case of the switch
       IN /\ envState' = after[1]
          /\ envAmplitude' = after[2]
          /\ envStates' = Append(envStates, after[1])
          /\ envAmps' = Append(envAmps, after[2])
    /\ envGates' = Append(envGates, envGateIn)
    /\ UNCHANGED <<envGateIn, envAttack, envDecay, envRelease, seqVars, delayVars,
                   slewVars, vcoVars, hostVars>>

InitEnvelopeSpec ==
    /\ InitRegistry
    /\ InitNoVco
    /\ InitNoMain
    /\ ptrSize \in {8}
    /\ InitNoMidi
    /\ InitNoSequencer
    /\ InitEnvelope
    /\ InitNoDelay
    /\ InitNoSlew

NextEnvelope ==
    \/ \E g \in GateValues : GateWrite(g)
    \/ EnvelopeUpdate

SpecEnvelope == InitEnvelopeSpec /\ [][NextEnvelope]_vars

(***************************************************************************)
(* Specification of an Envelope whose amplitude_out the host program has   *)
(* set before the first tick.                                              *)
(***************************************************************************)
\* Values of amplitude_out between 0 and 1.0f: both ends and one between
AmplitudeValues == {0, AmpOne \div 2 - 1, AmpOne}

InitEnvelopeAny ==
    /\ InitRegistry
    /\ InitNoVco
    /\ InitNoMain
    /\ ptrSize \in {8}
    /\ InitNoMidi
    /\ InitNoSequencer
    /\ InitNoDelay
    /\ InitNoSlew
    /\ envState \in EnvelopeStates
    /\ envAmplitude \in AmplitudeValues
    /\ envGateIn = 0
    /\ envAttack \in 1..MaxAttack
    /\ envDecay \in {1}
    /\ envRelease \in {1, 2}
    /\ envGates = <<>>
    /\ envStates = <<>>
    /\ envAmps = <<>>

SpecEnvelopeAny == InitEnvelopeAny /\ [][NextEnvelope]_vars

(***************************************************************************)
(* float arithmetic.  A float is kept as a whole number of units of a grid *)
(* fine enough for every value of the computation; the result of an        *)
(* operation is the exact result rounded to MantissaBits significant bits, *)
(* ties to even.                                                           *)
(***************************************************************************)
\* The distance between neighbouring floats at x >= 0, for a grid on which x
\* is a whole number
Spacing(x) ==
    2^(CHOOSE j \in 0..7 :
        /\ x < 2^(MantissaBits + j)
        /\ j = 0 \/ x >= 2^(MantissaBits + j - 1))

\* x + r/m (0 <= r < m) rounded to the nearest multiple of s, ties to even
RoundTo(x, r, m, s) ==
    LET low == x % s
        base == x - low
        up == IF s = 1
              THEN 2 * r > m \/ (2 * r = m /\ base % 2 = 1)
              ELSE 2 * low > s \/ (2 * low = s /\ (r > 0 \/ (base \div s) % 2 = 1))
    IN IF up THEN base + s ELSE base

\* The float nearest to the whole number x >= 0
RoundToFloat(x) == RoundTo(x, 0, 1, Spacing(x))

\* 1.0f on the grid of quotients by dt and of Delay::out
FracOne == 2^(MantissaBits - 1)

\* k * dt for a whole number k, in units of 2^-39 s
TimesDt(k) == RoundToFloat(k * DtMantissa)

\* d / dt for a float d >= 0 in units of 2^-39 s with d = 0 or d >= dt, in
\* units of 1/FracOne: the quotient is developed to 23 binary places and
\* rounded to the spacing of floats at its magnitude
DivDt(d) ==
    LET n == d \div DtMantissa
        r0 == d % DtMantissa
        q1 == (r0 * 2^7) \div DtMantissa
        r1 == (r0 * 2^7) % DtMantissa
        q2 == (r1 * 2^7) \div DtMantissa
        r2 == (r1 * 2^7) % DtMantissa
        q3 == (r2 * 2^7) \div DtMantissa
        r3 == (r2 * 2^7) % DtMantissa
        q4 == (r3 * 2^2) \div DtMantissa
        r4 == (r3 * 2^2) % DtMantissa
        x == n * FracOne + ((q1 * 2^7 + q2) * 2^7 + q3) * 2^2 + q4
        s == IF n = 0 THEN 1 ELSE 2^(CHOOSE j \in 0..7 : 2^j <= n /\ n < 2^(j + 1))
    IN RoundTo(x, r4, DtMantissa, s)

\* std::ceil of a quotient, as a whole number
Ceil(q) == (q + FracOne - 1) \div FracOne

(***************************************************************************)
(* Delay.                                                                  *)
(***************************************************************************)
\* Delay::Delay(max_delay), for max_delay = n * dt: delay(max_delay),
\* buffer(size_t(std::ceil(max_delay / dt)) + 1) value-initialized
InitDelay ==
    /\ \E n \in 0..MaxDelay :
        /\ delayDelay = TimesDt(n)
        /\ delayBuffer = [j \in 1..(Ceil(DivDt(TimesDt(n))) + 1) |-> 0]
        /\ delayK = n
    /\ delayIn = 0
    /\ delayOut = 0
    /\ delayOutNaN = FALSE
    /\ delayPc = "ok"
    /\ delayInputs = <<>>
    /\ delaySamples = <<>>
    /\ delayReadOutside = FALSE

\* Values of the input signal: silence and an impulse of height 1.0
DelayInValues == {0, 1}

\* A Wire or the host program writes in
DelayInWrite(v) ==
    /\ delayPc = "ok"
    /\ Len(delayInputs) < MaxDelayTicks
    /\ v # delayIn
    /\ delayIn' = v
    /\ UNCHANGED <<delayBuffer, delayDelay, delayOut, delayOutNaN, delayPc, delayK,
                   delayInputs, delaySamples, delayReadOutside, seqVars, envVars,
                   slewVars, vcoVars, hostVars>>

\* The host program sets delay to k samples: delay = k * dt
DelaySet(k) ==
    /\ delayPc = "ok"
    /\ Len(delayInputs) < MaxDelayTicks
    /\ k # delayK
    /\ k <= Len(delayBuffer) - 1
    /\ delayDelay' = TimesDt(k)
    /\ delayK' = k
    /\ UNCHANGED <<delayBuffer, delayIn, delayOut, delayOutNaN, delayPc, delayInputs,
                   delaySamples, delayReadOutside, seqVars, envVars, slewVars, vcoVars, hostVars>>

\* Delay::update.  buffer[0] is element 1 of delayBuffer.
DelayUpdate ==
    /\ delayPc = "ok"
    /\ Len(delayInputs) < MaxDelayTicks
    /\ LET buffer == <<delayIn>> \o SubSeq(delayBuffer, 1, Len(delayBuffer) - 1)
           nsamples == Len(buffer) - 1
           nonneg == IF delayDelay < 0 THEN 0 ELSE delayDelay
           delay == IF nonneg > TimesDt(nsamples) THEN TimesDt(nsamples) ELSE nonneg
           pos == DivDt(delay) \div FracOne
           fraction == DivDt(delay) % FracOne
       IN /\ delayBuffer' = buffer
          /\ delayDelay' = delay
          /\ IF pos + 1 < Len(buffer)
             THEN /\ delayOut' = buffer[pos + 1] * (FracOne - fraction)
                                  + buffer[pos + 2] * fraction
                  /\ UNCHANGED <<delayOutNaN, delayPc, delayReadOutside>>
             ELSE \* buffer[pos + 1] is past the last element: undefined
                  \* behaviour.  The read yields some float, finite or not,
                  \* or faults.
                  /\ delayReadOutside' = TRUE
                  /\ \/ \E g \in Indeterminate :
                            /\ delayOut' = buffer[pos + 1] * (FracOne - fraction)
                                            + g * fraction
                            /\ UNCHANGED <<delayOutNaN, delayPc>>
                     \/ delayOutNaN' = TRUE /\ UNCHANGED <<delayOut, delayPc>>
                     \/ delayPc' = "crashed" /\ UNCHANGED <<delayOut, delayOutNaN>>
    /\ delayInputs' = Append(delayInputs, delayIn)
    /\ delaySamples' = Append(delaySamples, delayK)
    /\ UNCHANGED <<delayIn, delayK, seqVars, envVars, slewVars, vcoVars, hostVars>>

InitDelaySpec ==
    /\ InitRegistry
    /\ InitNoVco
    /\ InitNoMain
    /\ ptrSize \in {8}
    /\ InitNoMidi
    /\ InitNoSequencer
    /\ InitNoEnvelope
    /\ InitDelay
    /\ InitNoSlew

NextDelay ==
    \/ \E v \in DelayInValues : DelayInWrite(v)
    \/ \E k \in 0..MaxDelay : DelaySet(k)
    \/ DelayUpdate

SpecDelay == InitDelaySpec /\ [][NextDelay]_vars

(***************************************************************************)
(* LinearSlew.  in, out and rate * dt are floats on one grid; every        *)
(* whole number below 2^MantissaBits grid units is a float, above it only  *)
(* every second, fourth, ... one.                                          *)
(***************************************************************************)
\* The float nearest to the whole number x
SignedFloat(x) == IF x < 0 THEN 0 - RoundToFloat(0 - x) ELSE RoundToFloat(x)

\* Values of in and of the initial out: small ones, where sums and
\* differences are exact, and large ones, where they are rounded
SlewValues ==
    {0 - 5, 0, 4, 2^MantissaBits - 4, 2^MantissaBits, 2^MantissaBits + 8}

\* Values of rate * dt
SlewSteps == {1, 3}

\* LinearSlew::LinearSlew(rate, initial), and the constant input
InitSlew ==
    /\ slewIn \in SlewValues
    /\ slewOut \in SlewValues
    /\ slewStep \in SlewSteps
    /\ slewTicks = 0

\* LinearSlew::update
LinearSlewUpdate ==
    /\ slewTicks < MaxSlewTicks
    /\ LET difference == SignedFloat(slewIn - slewOut)
           delta == IF difference > slewStep THEN slewStep
                    ELSE IF difference < 0 - slewStep THEN 0 - slewStep
                    ELSE difference
       IN slewOut' = SignedFloat(slewOut + delta)
    /\ slewTicks' = slewTicks + 1
    /\ UNCHANGED <<slewIn, slewStep, seqVars, envVars, delayVars, vcoVars, hostVars>>

InitSlewSpec ==
    /\ InitRegistry
    /\ InitNoVco
    /\ InitNoMain
    /\ ptrSize \in {8}
    /\ InitNoMidi
    /\ InitNoSequencer
    /\ InitNoEnvelope
    /\ InitNoDelay
    /\ InitSlew

NextSlew == LinearSlewUpdate

SpecSlew == InitSlewSpec /\ [][NextSlew]_vars

(***************************************************************************)
(* VCO.  The phase and frequency * dt are multiples of 1/PhaseOne, a power *)
(* of two, so that every float operation of the update is exact.  The      *)
(* model keeps no sine_out: the update reads no output but sawtooth_out.   *)
(***************************************************************************)
PhaseOne == 2^PhaseBits

\* std::floor of x / PhaseOne
Floor(x) == IF x >= 0 THEN x \div PhaseOne ELSE 0 - ((PhaseOne - 1 - x) \div PhaseOne)

\* Mutant of std::rint: a tie goes away from zero
RintHalfUp(x) ==
    LET q == x \div PhaseOne
        r == x % PhaseOne
    IN IF 2 * r < PhaseOne THEN q ELSE q + 1

\* std::rint of x / PhaseOne for x >= 0, in the default rounding mode: to the
\* nearest whole number, a tie to the even one
Rint(x) ==
    LET q == x \div PhaseOne
        r == x % PhaseOne
    IN IF 2 * r < PhaseOne THEN q
       ELSE IF 2 * r > PhaseOne THEN q + 1
       ELSE IF q % 2 = 0 THEN q ELSE q + 1

Abs(x) == IF x < 0 THEN 0 - x ELSE x

\* The wrapped phase the last update computed: sawtooth_out = phase * 2 - 1
VcoPhase == (vcoSawtooth + PhaseOne) \div 2

\* VCO::VCO(frequency) with a positive frequency below the sample rate
InitVco ==
    /\ vcoStep \in 1..(PhaseOne - 1)
    /\ vcoSawtooth = 0 - PhaseOne
    /\ vcoSquare = 1
    /\ vcoTriangle = 0
    /\ vcoTicks = 0
    /\ vcoFalls = 0

\* VCO::update
VCOUpdate ==
    /\ vcoTicks < MaxVcoTicks
    /\ LET start == (vcoSawtooth - PhaseOne) \div 2
           advanced == start + vcoStep
           phase == advanced - Floor(advanced) * PhaseOne
           square == Rint(phase) * (0 - 2) + 1
       IN /\ vcoSawtooth' = phase * 2 - PhaseOne
          /\ vcoSquare' = square
          /\ vcoTriangle' = Abs(2 * phase - PhaseOne) * 2 - PhaseOne
          /\ vcoFalls' = IF Floor(advanced) >= 0 THEN 0
                         ELSE IF vcoSquare = 1 /\ square = 0 - 1 THEN vcoFalls + 1
                         ELSE vcoFalls
    /\ vcoTicks' = vcoTicks + 1
    /\ UNCHANGED <<vcoStep, seqVars, envVars, delayVars, slewVars, hostVars>>

InitVcoSpec ==
    /\ InitRegistry
    /\ InitNoMain
    /\ ptrSize \in {8}
    /\ InitNoMidi
    /\ InitNoSequencer
    /\ InitNoEnvelope
    /\ InitNoDelay
    /\ InitNoSlew
    /\ InitVco

NextVco == VCOUpdate

SpecVco == InitVcoSpec /\ [][NextVco]_vars

(***************************************************************************)
(* Properties of the MIDI adapter.                                         *)
(***************************************************************************)
Highest(ns) == CHOOSE n \in ns : \A m \in ns : m <= n

\* C7: no update path performs a blocking operation: process_event does no
\* stream output.
C7_NoBlockingOperation == cerrWrites = 0

C9_GateIffNoteHeld ==
    \A c \in ModelledChans :
        /\ notes[c] # {} => gate[c] = 1
        /\ notes[c] = {} => gate[c] = 0

\* C10: when the last event emptied the held-note set of its channel, gate is 0
\* and release_velocity is the velocity of the note that was released (the
\* velocity its release event carried, or a velocity it was pressed with).
C10_ReleaseVelocityOfLastNote ==
    lastEmptied # <<>> =>
        LET c == lastEmptied[1] IN
            /\ gate[c] = 0
            /\ releaseVelocity[c] \in {lastEmptied[2]} \cup lastEmptied[3]

\* C11: a KEYPRESS event sets the channel's aftertouch to its velocity when its
\* note is the highest held note of the channel, and leaves every aftertouch
\* unchanged when it names any other note.
C11_KeyPressureOfSelectedNote ==
    [][\A ev \in MidiEvents :
        (ev.type = "KEYPRESS" /\ ev.channel < NumChannels /\ ProcessEvent(ev)) =>
            IF notes[ev.channel] # {} /\ ev.note = Highest(notes[ev.channel])
            THEN aftertouch' = [aftertouch EXCEPT ![ev.channel] = ev.velocity]
            ELSE aftertouch' = aftertouch]_vars

\* The fields of one element of channels[]
ChannelState(c) ==
    <<notes[c], frequency[c], velocity[c], releaseVelocity[c], gate[c],
      aftertouch[c], pitchBend[c], parameter[c]>>

\* C12: for every event, malformed ones included, process_event neither raises
\* nor aborts, stores nothing outside the channel the event addresses, and
\* changes no channel at all when the event's type is not a recognized one.
C12_NeverRaisesOnlyAddressedChannel ==
    [][\A ev \in AllMidiEvents :
        ProcessEvent(ev) =>
            /\ midiPc' = "running"
            /\ foreignWrites' = foreignWrites
            /\ \A c \in ModelledChans :
                (ev.type \notin RecognizedTypes \/ c # ev.channel) =>
                    ChannelState(c)' = ChannelState(c)]_vars

\* MIDI::update returns in this step
UpdateReturns == updPc = "loop" /\ updPc' = "idle"

\* C13: a MIDI::update call that has begun is not cut short, and when it
\* returns the queue is empty and process_event has been handed exactly the
\* events that were waiting when the call began (followed by those that
\* arrived while it ran), once each and in arrival order; a call that handled
\* no event has changed no channel state.
C13_UpdateDrainsQueue ==
    /\ [](updPc = "loop" => midiPc = "running")
    /\ [][UpdateReturns =>
            /\ queue' = <<>>
            /\ drained' = pendingAtStart \o arrivedInCall
            /\ drained' = <<>> => <<noteVars, ctlVars>>' = channelsAtStart]_vars

(***************************************************************************)
(* Properties of the Sequencer.                                            *)
(***************************************************************************)
\* C14: once the clock input has had k >= 1 rising edges (the first tick with
\* clock_in > 0 being the first), frequency_out is frequencies[(k-1) mod L].
C14_KthEdgeSelectsKthNote ==
    seqEdges >= 1 =>
        seqFrequencyOut = seqFrequencies[((seqEdges - 1) % Len(seqFrequencies)) + 1]

\* C18: in every tick but the first the index advances by one modulo the list
\* length when clock_in > 0 now and clock_in <= 0 in the previous tick, and
\* stays otherwise; gate_out after every tick is 1 if clock_in > 0 else 0.
C18_IndexAdvancesOnRisingEdge ==
    [][SequencerUpdate =>
        /\ seqTicks >= 1 =>
                seqIndex' = IF seqClockIn > 0 /\ seqPrevClock <= 0
                            THEN (seqIndex + 1) % Len(seqFrequencies) ELSE seqIndex
        /\ seqGateOut' = IF seqClockIn > 0 THEN 1 ELSE 0]_vars

C18_Witness ==
    /\ Len(seqFrequencies) >= 2
    /\ seqTicks >= 4
    /\ seqEdges >= 2
    /\ seqPrevClock > 0
    /\ seqGateOut = 1

(***************************************************************************)
(* Properties of the Envelope.                                             *)
(***************************************************************************)
EnvTicks == Len(envGates)

GateHeldHigh == \A k \in 1..EnvTicks : envGates[k] > 0

\* C15: with gate_in > 0 in every tick since construction, amplitude_out is
\* 1.0 for the first time after attack / dt ticks, give or take one, and from
\* then on no tick raises it.
C15_AttackReachesOneThenDecays ==
    GateHeldHigh =>
        /\ EnvTicks >= envAttack + 1 =>
                \E r \in (envAttack - 1)..(envAttack + 1) :
                    /\ r >= 1
                    /\ envAmps[r] = AmpOne
                    /\ \A j \in 1..(r - 1) : envAmps[j] < AmpOne
        /\ \A j \in 1..EnvTicks : \A k \in j..(EnvTicks - 1) :
                envAmps[j] = AmpOne => envAmps[k + 1] <= envAmps[k]

\* C19: a tick with gate_in <= 0 ends in RELEASE; a tick with gate_in > 0
\* taken in RELEASE or ATTACK runs the attack step and ends in DECAY, with
\* the amplitude clamped to 1.0, exactly when the stepped amplitude reaches or
\* exceeds 1.0, and in ATTACK otherwise; a tick with gate_in > 0 taken in
\* DECAY ends in DECAY.
C19_EnvelopeStateTransitions ==
    [][EnvelopeUpdate =>
        /\ envGateIn <= 0 => envState' = "RELEASE"
        /\ (envGateIn > 0 /\ envState \in {"RELEASE", "ATTACK"}) =>
                IF AttackStep(envAmplitude) >= AmpOne
                THEN envState' = "DECAY" /\ envAmplitude' = AmpOne
                ELSE envState' = "ATTACK" /\ envAmplitude' = AttackStep(envAmplitude)
        /\ (envGateIn > 0 /\ envState = "DECAY") => envState' = "DECAY"]_vars

C19_Witness ==
    \E k \in 1..(EnvTicks - 4) :
        /\ envStates[k] = "ATTACK" /\ envGates[k] > 0
        /\ envStates[k + 1] = "DECAY"
        /\ envStates[k + 2] = "DECAY" /\ envGates[k + 2] > 0
        /\ envStates[k + 3] = "RELEASE"
        /\ envStates[k + 4] = "ATTACK"

(***************************************************************************)
(* Properties of the Delay.                                                *)
(***************************************************************************)
\* C16: when delay has been held at k samples (0 <= k <= capacity - 1) in
\* every tick so far, the output of tick t is the input of tick t - k, and
\* zero while t - k is before the first tick.
C16_OutputIsInputDelayedByK ==
    delaySamples # <<>> =>
        LET k == delaySamples[1]
            t == Len(delayInputs)
        IN (\A j \in 1..t : delaySamples[j] = k) =>
                /\ delayPc = "ok"
                /\ ~delayOutNaN
                /\ delayOut = FracOne * (IF t - k >= 1 THEN delayInputs[t - k] ELSE 0)

(***************************************************************************)
(* Properties of the LinearSlew.                                           *)
(***************************************************************************)
Distance(a, b) == IF a < b THEN b - a ELSE a - b

\* C20: with a constant input, a tick changes the output by at most rate * dt
\* and never moves it past the input; while the output differs from the input
\* every tick brings it closer (so that it arrives after finitely many
\* ticks), and once equal it stays equal.
C20_SlewReachesInput ==
    [][LinearSlewUpdate =>
        /\ Distance(slewOut', slewOut) <= slewStep
        /\ slewOut <= slewIn => slewOut <= slewOut' /\ slewOut' <= slewIn
        /\ slewOut >= slewIn => slewOut >= slewOut' /\ slewOut' >= slewIn
        /\ slewOut # slewIn => Distance(slewIn, slewOut') < Distance(slewIn, slewOut)
        /\ slewOut = slewIn => slewOut' = slewIn]_vars

(***************************************************************************)
(* Properties of the example programs.                                     *)
(***************************************************************************)
\* The audio thread is inside the callback, or SDL may invoke it
CallbackCanRun == playing \/ cbPc # "idle"

\* C17: in the lifecycle of the example programs no module is constructed or
\* destroyed, and the Registry is not changed, while the audio callback can
\* still run a tick.
C17_RegistryQuietWhileAudioRuns ==
    [][modules' # modules \/ live' # live => ~CallbackCanRun]_vars

(***************************************************************************)
(* Properties of the MIDI controls.                                        *)
(***************************************************************************)
\* The pitch-bend events of the MIDI range on a channel of channels[]
BendEvents == {ev \in AllMidiEvents : ev.type = "PITCHBEND" /\ ev.channel < NumChannels}

\* C21: after a pitch-bend event with a value in -8192..8191 the pitch_bend of
\* its channel is between -1 and 1.
C21_PitchBendNormalized ==
    [][\A ev \in BendEvents :
        ProcessEvent(ev) =>
            /\ pitchBend'[ev.channel] >= 0 - BendDivisor
            /\ pitchBend'[ev.channel] <= BendDivisor]_vars

(***************************************************************************)
(* Properties of the VCO.                                                  *)
(***************************************************************************)
\* This tick wraps the phase: a new cycle begins
VcoWraps == VCOUpdate /\ VcoPhase' < VcoPhase

\* square_out goes from +1 to -1 in this tick
VcoFalls == VCOUpdate /\ vcoSquare = 1 /\ vcoSquare' = 0 - 1

\* C22 as stated: after every tick square_out is +1 when the wrapped phase is
\* below 0.5 and -1 when it is 0.5 or more, and with a constant positive
\* frequency every cycle has exactly one tick in which square_out goes from +1
\* to -1.
C22_SquareLowFromHalf ==
    /\ [](vcoTicks > 0 =>
            /\ 2 * VcoPhase < PhaseOne => vcoSquare = 1
            /\ 2 * VcoPhase >= PhaseOne => vcoSquare = 0 - 1)
    /\ [][VcoWraps => vcoFalls = 1]_vars

\* C22, amended: after every tick square_out is +1 when the wrapped phase is
\* at most 0.5 and -1 when it is above 0.5; with a constant positive frequency
\* below half the sample rate every cycle has exactly one tick in which
\* square_out goes from +1 to -1, the tick that takes the phase from at most
\* 0.5 to above 0.5.
C22_SquareLowAboveHalf ==
    /\ [](vcoTicks > 0 =>
            /\ 2 * VcoPhase <= PhaseOne => vcoSquare = 1
            /\ 2 * VcoPhase > PhaseOne => vcoSquare = 0 - 1)
    /\ [][VcoFalls => 2 * VcoPhase <= PhaseOne /\ 2 * VcoPhase' > PhaseOne]_vars
    /\ [][VcoWraps /\ 2 * vcoStep < PhaseOne => vcoFalls = 1]_vars

\* A VCO below half the sample rate has completed a cycle and stands at phase
\* exactly 0.5 with square_out = +1
C22_Witness ==
    /\ 2 * vcoStep < PhaseOne
    /\ vcoTicks > PhaseOne \div vcoStep
    /\ 2 * VcoPhase = PhaseOne
    /\ vcoSquare = 1

(***************************************************************************)
(* Properties of the Delay's buffer.                                       *)
(***************************************************************************)
\* C23: every Delay::update reads the buffer only at indices below its size,
\* and leaves the buffer at the size it had.
C23_ReadsInsideBuffer ==
    [][DelayUpdate => ~delayReadOutside' /\ Len(delayBuffer') = Len(delayBuffer)]_vars

(***************************************************************************)
(* Properties of the Sequencer's index.                                    *)
(***************************************************************************)
\* C24: for a Sequencer built from any list, the empty one included, index is
\* below frequencies.size() in every reachable state and no update reads
\* frequencies outside its elements.
C24_IndexWithinFrequencies ==
    /\ [](seqIndex >= 0 /\ seqIndex < Len(seqFrequencies))
    /\ [][SequencerUpdate \/ SequencerUpdateEmpty =>
            ~seqReadOutside' /\ seqPc' = "ok"]_vars

(***************************************************************************)
(* Properties of the Envelope's amplitude.                                 *)
(***************************************************************************)
\* C25: with positive attack, decay and release times and an amplitude that
\* starts between 0 and 1, amplitude_out is between 0 and 1 after every tick,
\* whatever the gate does.
C25_AmplitudeWithinUnit ==
    /\ envAmplitude >= 0
    /\ envAmplitude <= AmpOne
    /\ \A t \in 1..Len(envAmps) : envAmps[t] >= 0 /\ envAmps[t] <= AmpOne

\* The attack was retriggered while the amplitude was still above zero, and
\* a later tick clamped the amplitude at 1.0
C25_Witness ==
    \E t \in 2..Len(envAmps) :
        /\ envStates[t - 1] = "RELEASE"
        /\ envAmps[t - 1] > 0
        /\ envGates[t] > 0
        /\ envStates[t] \in {"ATTACK", "DECAY"}
        /\ envAmps[t] > envAmps[t - 1]
        /\ envAmplitude = AmpOne

====
